---- MODULE Spec2Model ----
(***************************************************************************)
(* One invocation of the Unraid GraphQL command-line client                *)
(* (unraid_api_client.py): main() parses the command line, constructs an   *)
(* UnraidGraphQLClient (whose constructor probes the server for a          *)
(* redirect), applies --direct, and runs the first selected action.        *)
(*                                                                         *)
(* Strings that the code inspects character by character (the Location     *)
(* header, the endpoint, the derived headers) are sequences of one-        *)
(* character strings.  The server and the requests library are the         *)
(* environment: every response, failure and exception they can produce is  *)
(* a nondeterministic choice of the action that performs the call.         *)
(***************************************************************************)
EXTENDS Integers, Sequences, FiniteSets, TLC

\* ------------------------------------------------------------------ bounds
\* Command lines explored: at most MaxOptions options set to a value other
\* than their default.
MaxOptions == 2

\* ------------------------------------------------------- program constants
redirect_status == 302
timeout == 15
max_redirects == 5

\* ----------------------------------------------------------------- strings
None == <<"<None>">>
Absent == <<"<absent>">>

HttpScheme == <<"h","t","t","p",":","/","/">>
HttpsScheme == <<"h","t","t","p","s",":","/","/">>
GraphqlPath == <<"/","g","r","a","p","h","q","l">>
DashboardPath == <<"/","d","a","s","h","b","o","a","r","d">>

\* args.ip, args.key, args.port of the invocation
ServerIp == <<"1","0",".","0",".","0",".","1">>
ServerPort == <<"8","0">>
ApiKey == <<"k","e","y">>

\* Location values the probed server may answer with
LocHttps == HttpsScheme \o <<"a",".","b">> \o GraphqlPath
LocHttpPort == HttpScheme \o <<"a",":","8">> \o <<"/","g">>
LocRelative == GraphqlPath
LocEmbedded == <<"/","r","?","u","=">> \o HttpScheme \o <<"e","/","x">>
Locations == {LocHttps, LocHttpPort, LocRelative, LocEmbedded}

\* ------------------------------------------------ re.search(r'https?://([^/]+)')
HasAt(s, i, lit) ==
    /\ i + Len(lit) - 1 <= Len(s)
    /\ SubSeq(s, i, i + Len(lit) - 1) = lit

\* index of the first character after "http://" or "https://" at i, 0 if none
SchemeEnd(s, i) ==
    IF HasAt(s, i, HttpsScheme) THEN i + Len(HttpsScheme)
    ELSE IF HasAt(s, i, HttpScheme) THEN i + Len(HttpScheme)
    ELSE 0

\* the pattern matches at i: scheme, then at least one character that is not "/"
MatchesAt(s, i) ==
    LET e == SchemeEnd(s, i)
    IN  /\ e # 0
        /\ e <= Len(s)
        /\ s[e] # "/"

\* variant of GroupAt whose group runs to the end of the string, as the
\* pattern https?://(.+) would capture it
GroupAtToEnd(s, i) == SubSeq(s, SchemeEnd(s, i), Len(s))

\* group(1) of the match at i: the longest run of non-"/" characters
GroupAt(s, i) ==
    LET e == SchemeEnd(s, i)
        stops == {j \in e..Len(s) : s[j] = "/"}
        last == IF stops = {} THEN Len(s)
                ELSE (CHOOSE j \in stops : \A k \in stops : j <= k) - 1
    IN  SubSeq(s, e, last)

\* re.search: the leftmost match; None when the pattern occurs nowhere
DomainMatch(s) ==
    LET hits == {i \in 1..Len(s) : MatchesAt(s, i)}
    IN  IF hits = {} THEN None
        ELSE GroupAt(s, CHOOSE i \in hits : \A k \in hits : i <= k)

\* ----------------------------------------------------------- command line
\* store_true options, in the order main() tests them; --direct is tested apart
BoolFlags ==
    {"reboot", "shutdown", "start_array", "stop_array", "start_parity",
     "correct_parity", "pause_parity", "resume_parity", "cancel_parity",
     "add_user", "delete_user", "create_apikey", "create_notification",
     "archive_all", "setup_remote", "direct"}

\* options that carry a string and select an action when the string is truthy
StrOpts ==
    {"archive_notification", "start_container", "stop_container",
     "restart_container", "start_vm", "stop_vm", "pause_vm", "resume_vm",
     "custom"}

\* values of a string option: not given, given empty, given non-empty
Empty == <<>>
SomeText == <<"x">>
StrValues == {Empty, SomeText}

QueryChoices ==
    {"info", "array", "docker", "disks", "network", "shares", "vms", "parity",
     "vars", "users", "apikeys", "notifications", "all"}

\* the value arguments main() requires before it runs a mutating action
Required(f) ==
    CASE f = "add_user" -> {"username", "password"}
      [] f = "delete_user" -> {"username"}
      [] f = "create_apikey" -> {"apikey_name"}
      [] f = "create_notification" -> {"title", "subject", "message"}
      [] f = "setup_remote" -> {"access_type"}
      [] OTHER -> {}

\* parse_args() with no option given
DefaultArgs ==
    [flags |-> {}, str |-> [o \in StrOpts |-> None], query |-> "info"]

RECURSIVE CommandLines(_)
CommandLines(k) ==
    IF k = 0 THEN {DefaultArgs}
    ELSE LET prev == CommandLines(k - 1)
         IN  prev
             \cup {[a EXCEPT !.flags = @ \cup {f}] : a \in prev, f \in BoolFlags}
             \cup {[a EXCEPT !.str[o[1]] = o[2]] :
                       a \in prev, o \in StrOpts \X StrValues}
             \cup {[a EXCEPT !.query = q] : a \in prev, q \in QueryChoices}

ParsedArgs == CommandLines(MaxOptions)

Truthy(v) == v # None /\ v # Empty

\* ------------------------------------------------------------------ session
EmptyHeaders == [n \in {} |-> Empty]

\* __init__: the initial set of headers
InitialHeaders ==
    ("Content-Type" :> <<"application/json">>)
    @@ ("x-api-key" :> ApiKey)
    @@ ("Accept" :> <<"application/json">>)

\* __init__: base_url and endpoint
BaseUrl == HttpScheme \o ServerIp \o <<":">> \o ServerPort
BaseEndpoint == BaseUrl \o GraphqlPath

SetHeader(h, k, v) == (k :> v) @@ h

\* responses of the probed server and failures of requests.get
ProbeResponses ==
    {[kind |-> "response", status |-> 200, location |-> Absent],
     [kind |-> "response", status |-> 200, location |-> LocHttps],
     [kind |-> "response", status |-> 302, location |-> Absent],
     [kind |-> "response", status |-> 307, location |-> LocHttps]}
    \cup {[kind |-> "response", status |-> 302, location |-> l] : l \in Locations}

\* requests.get is called without a timeout: when the server accepts the
\* connection and never answers, the call never returns ("NoAnswer")
ProbeOutcomes ==
    ProbeResponses
    \cup {[kind |-> "RequestException", status |-> 0, location |-> Absent],
          [kind |-> "Exception", status |-> 0, location |-> Absent],
          [kind |-> "NoAnswer", status |-> 0, location |-> Absent]}

NoProbe == [kind |-> "none", status |-> 0, location |-> Absent]

\* the headers after the domain of the redirect URL has been extracted
DomainHeaders(h, url) ==
    LET domain == DomainMatch(url)
    IN  IF domain = None THEN h
        ELSE SetHeader(
                 SetHeader(SetHeader(h, "Host", domain),
                           "Origin", HttpsScheme \o domain),
                 "Referer", HttpsScheme \o domain \o DashboardPath)

\* variant of IsRedirect that does not look for the Location header
IsRedirectStatus(p) ==
    /\ p.kind = "response"
    /\ p.status = redirect_status

\* if response.status_code == 302 and 'Location' in response.headers
IsRedirect(p) ==
    /\ p.kind = "response"
    /\ p.status = redirect_status
    /\ p.location # Absent

\* variant of Discover that lets a failure of the probe leave the constructor
DiscoverRaising(ep, h, p) ==
    [endpoint |-> ep, redirect_url |-> None, headers |-> h, printed |-> <<>>,
     raised |-> p.kind \in {"RequestException", "Exception"}]

\* _discover_redirect_url on the outcome p of the probe
Discover(ep, h, p) ==
    IF IsRedirect(p)
    THEN [endpoint |-> p.location, redirect_url |-> p.location,
          headers |-> DomainHeaders(h, p.location),
          printed |-> <<"Discovered redirect URL">>, raised |-> FALSE]
    ELSE [endpoint |-> ep, redirect_url |-> None, headers |-> h,
          printed |-> IF p.kind = "RequestException"
                      THEN <<"Warning: Could not discover redirect URL">>
                      ELSE <<>>,
          raised |-> p.kind = "Exception"]

\* headers of a fresh requests.Session()
SessionDefaults ==
    ("User-Agent" :> <<"python-requests">>)
    @@ ("Accept-Encoding" :> <<"gzip, deflate">>)
    @@ ("Accept" :> <<"*/*">>)
    @@ ("Connection" :> <<"keep-alive">>)

\* variant of ProbeRequest that sends the headers of the session and lets the
\* library follow redirects
ProbeRequestAsSession(ep) ==
    [method |-> "GET", url |-> ep, headers |-> InitialHeaders @@ SessionDefaults,
     query |-> None, allow_redirects |-> TRUE, timeout |-> 0]

\* requests.get(self.endpoint, allow_redirects=False)
ProbeRequest(ep) ==
    [method |-> "GET", url |-> ep, headers |-> SessionDefaults,
     query |-> None, allow_redirects |-> FALSE, timeout |-> 0]

\* ------------------------------------------------------------ execute_query
NoValue == [n \in {} |-> Empty]
JsonText == "{json}"
HtmlText == "<html>"
NoText == "<no response>"

\* what response.json() raises on a body that is not JSON: the requests
\* library in use decides (2.27 and later raise a RequestException subclass
\* that is also a json.JSONDecodeError; earlier ones raise the decoder's own
\* error, a json.JSONDecodeError or, with simplejson, a plain ValueError)
JsonErrors == {"requests.JSONDecodeError", "json.JSONDecodeError", "ValueError"}

\* what session.post can produce once the request is on the network: a final
\* response, reached directly or after the session has followed up to
\* max_redirects redirects (hops), a RequestException, or an exception of
\* another class that the library lets through
PostOutcomes ==
    {[kind |-> "response", status |-> s, text |-> JsonText, exc |-> "none",
      hops |-> 0] : s \in {200, 302, 404, 500}}
    \cup {[kind |-> "response", status |-> 200, text |-> JsonText, exc |-> "none",
           hops |-> max_redirects]}
    \cup {[kind |-> "response", status |-> 500, text |-> HtmlText, exc |-> "none",
           hops |-> 0]}
    \cup {[kind |-> "response", status |-> 200, text |-> HtmlText, exc |-> e,
           hops |-> 0] : e \in JsonErrors}
    \cup {[kind |-> "RequestException", status |-> 0, text |-> NoText, exc |-> e,
           hops |-> 0] : e \in {"ConnectionError", "Timeout"}}
    \cup {[kind |-> "RequestException", status |-> 302, text |-> HtmlText,
           exc |-> "TooManyRedirects", hops |-> max_redirects],
          [kind |-> "Exception", status |-> 0, text |-> NoText,
           exc |-> "Exception", hops |-> 0]}

\* the session prepares the request before it sends anything: a URL that
\* does not start with http:// or https:// and a host is refused with
\* MissingSchema or InvalidURL, both RequestExceptions
Sendable(url) == MatchesAt(url, 1)

\* what session.post(url, ...) can produce
PostOutcomesTo(url) ==
    IF Sendable(url) THEN PostOutcomes
    ELSE {[kind |-> "RequestException", status |-> 0, text |-> NoText,
           exc |-> "MissingSchema", hops |-> 0]}

\* payload = {"query": query}; "variables" is added when truthy
Payload(query, variables) ==
    IF Truthy(variables)
    THEN ("query" :> query) @@ ("variables" :> variables)
    ELSE ("query" :> query)

\* variant of PostRequest that sends the initial headers instead of the
\* session's current ones
PostRequestInitialHeaders(ep, h, payload) ==
    [method |-> "POST", url |-> ep, headers |-> InitialHeaders @@ SessionDefaults,
     query |-> payload["query"], allow_redirects |-> TRUE, timeout |-> timeout]

\* session.post(self.endpoint, json=payload, verify=False, timeout=15) on a
\* fresh session that carries every header of self.headers
PostRequest(ep, h, payload) ==
    [method |-> "POST", url |-> ep, headers |-> h @@ SessionDefaults,
     query |-> payload["query"], allow_redirects |-> TRUE, timeout |-> timeout]

\* variant of RaisesForStatus that lets client errors through
RaisesForServerError(status) == status >= 500 /\ status < 600

\* response.raise_for_status()
RaisesForStatus(status) == status >= 400 /\ status < 600

\* e.response is not None
HasResponse(o) == o.status # 0

ErrorRecord(msg) == ("error" :> msg)

\* str(status)
StatusText(status) ==
    CASE status = 200 -> "200"
      [] status = 302 -> "302"
      [] status = 404 -> "404"
      [] status = 500 -> "500"

\* str(e): the parts the message of the exception is made of.  An HTTPError
\* reads "<status> Client Error: <reason> for url: <url>" (Server Error from
\* 500 on); the other classes carry the text of the failure.
Message(o, cls) ==
    IF cls = "HTTPError"
    THEN <<StatusText(o.status),
           IF o.status < 500 THEN "Client Error" ELSE "Server Error",
           "for url">>
    ELSE <<cls>>

\* variant of CaughtRequestException that reports the failure and raises it
\* again
CaughtRequestExceptionReraised(o, cls) ==
    [how |-> "raise", value |-> NoValue, exc |-> cls,
     printed |-> << <<"Error making the request">> >>, handler |-> "none"]

\* the except clause of execute_query on a RequestException of class cls;
\* the exception of a malformed body carries no response
CaughtRequestException(o, cls) ==
    [how |-> "return",
     value |-> ErrorRecord(Message(o, cls)),
     exc |-> "none",
     printed |-> << <<"Error making the request">> >>
                 \o (IF HasResponse(o) /\ cls # "requests.JSONDecodeError"
                     THEN << <<"Response status", StatusText(o.status)>>,
                             <<"Response body", o.text>> >>
                     ELSE <<>>),
     handler |-> "execute_query"]

\* the try block of execute_query on the outcome o of session.post
ExecuteQuery(o) ==
    IF o.kind = "Exception"
    THEN [how |-> "raise", value |-> NoValue, exc |-> o.exc, printed |-> <<>>,
          handler |-> "none"]
    ELSE IF o.kind = "RequestException" THEN CaughtRequestException(o, o.exc)
    ELSE IF RaisesForStatus(o.status) THEN CaughtRequestException(o, "HTTPError")
    ELSE IF o.text = JsonText
    THEN [how |-> "return", value |-> ("data" :> <<o.text>>), exc |-> "none",
          printed |-> <<>>, handler |-> "none"]
    ELSE IF o.exc = "requests.JSONDecodeError"
    THEN CaughtRequestException(o, o.exc)
    ELSE [how |-> "raise", value |-> NoValue, exc |-> o.exc, printed |-> <<>>,
          handler |-> "none"]

\* ------------------------------------------------------------------ catalog
\* variant of FlagOrder that tests --correct-parity before --start-parity
FlagOrderCorrectFirst ==
    <<"reboot", "shutdown", "start_array", "stop_array", "correct_parity",
      "start_parity", "pause_parity", "resume_parity", "cancel_parity",
      "add_user", "delete_user", "create_apikey", "create_notification",
      "archive_notification", "archive_all", "setup_remote",
      "start_container", "stop_container", "restart_container",
      "start_vm", "stop_vm", "pause_vm", "resume_vm", "custom">>

\* the mutating selectors of main(), in the order of its if chain
FlagOrder ==
    <<"reboot", "shutdown", "start_array", "stop_array", "start_parity",
      "correct_parity", "pause_parity", "resume_parity", "cancel_parity",
      "add_user", "delete_user", "create_apikey", "create_notification",
      "archive_notification", "archive_all", "setup_remote",
      "start_container", "stop_container", "restart_container",
      "start_vm", "stop_vm", "pause_vm", "resume_vm", "custom">>

DockerFlags == {"start_container", "stop_container", "restart_container"}
VmFlags == {"start_vm", "stop_vm", "pause_vm", "resume_vm"}
UnsupportedFlags == DockerFlags \cup VmFlags
ValidatedFlags ==
    {"add_user", "delete_user", "create_apikey", "create_notification",
     "setup_remote"}

\* the GraphQL document each selector's catalog method sends: the kind of
\* operation, its top-level field, and the argument that main() fixes
Document(f) ==
    CASE f = "reboot" -> <<"mutation", "reboot">>
      [] f = "shutdown" -> <<"mutation", "shutdown">>
      [] f = "start_array" -> <<"mutation", "startArray">>
      [] f = "stop_array" -> <<"mutation", "stopArray">>
      [] f = "start_parity" -> <<"mutation", "startParityCheck", "correct: false">>
      [] f = "correct_parity" -> <<"mutation", "startParityCheck", "correct: true">>
      [] f = "pause_parity" -> <<"mutation", "pauseParityCheck">>
      [] f = "resume_parity" -> <<"mutation", "resumeParityCheck">>
      [] f = "cancel_parity" -> <<"mutation", "cancelParityCheck">>
      [] f = "add_user" -> <<"mutation", "addUser">>
      [] f = "delete_user" -> <<"mutation", "deleteUser">>
      [] f = "create_apikey" -> <<"mutation", "createApiKey">>
      [] f = "create_notification" -> <<"mutation", "createNotification">>
      [] f = "archive_notification" -> <<"mutation", "archiveNotification">>
      [] f = "archive_all" -> <<"mutation", "archiveAll">>
      [] f = "setup_remote" -> <<"mutation", "setupRemoteAccess">>
      [] f = "custom" -> <<"custom">>

\* the read queries of main(), in the order it issues them: the --query
\* choice that selects the step and the document of its catalog method
ReadSteps ==
    << <<"info", <<"query", "info">> >>,
       <<"array", <<"query", "array">> >>,
       <<"docker", <<"query", "docker">> >>,
       <<"disks", <<"query", "disks">> >>,
       <<"network", <<"query", "network">> >>,
       <<"network", <<"query", "info", "devices">> >>,
       <<"shares", <<"query", "shares">> >>,
       <<"vms", <<"query", "vms">> >>,
       <<"parity", <<"query", "parityHistory">> >>,
       <<"vars", <<"query", "vars">> >>,
       <<"users", <<"query", "me">> >>,
       <<"apikeys", <<"query", "apiKeys">> >>,
       <<"notifications", <<"query", "notifications">> >> >>

\* the error record of the operations the remote schema does not support
NotSupported(f) ==
    IF f \in DockerFlags
    THEN ErrorRecord(<<"Docker container control operations are not currently supported by the Unraid GraphQL API">>)
    ELSE ErrorRecord(<<"VM control operations are not currently supported by the Unraid GraphQL API">>)

\* --------------------------------------------------------------------- main
Selected(a, f) == IF f \in BoolFlags THEN f \in a.flags ELSE Truthy(a.str[f])

\* variant of FirstSelected that lets the last selector that holds win
LastSelected(a) ==
    LET hits == {i \in 1..Len(FlagOrder) : Selected(a, FlagOrder[i])}
    IN  IF hits = {} THEN "none"
        ELSE FlagOrder[CHOOSE i \in hits : \A k \in hits : i >= k]

\* the first selector of the if chain that holds, "none" when main() falls
\* through to the read queries
FirstSelected(a) ==
    LET hits == {i \in 1..Len(FlagOrder) : Selected(a, FlagOrder[i])}
    IN  IF hits = {} THEN "none"
        ELSE FlagOrder[CHOOSE i \in hits : \A k \in hits : i <= k]

\* variant of NextRead that runs one step for each --query choice
NextReadOncePerChoice(a, i) ==
    LET hits == {j \in i..Len(ReadSteps) :
                    /\ a.query \in {ReadSteps[j][1], "all"}
                    /\ j > 1 => ReadSteps[j - 1][1] # ReadSteps[j][1]}
    IN  IF hits = {} THEN 0 ELSE CHOOSE j \in hits : \A k \in hits : j <= k

\* the first read step at or after i that --query selects, 0 when none is left
NextRead(a, i) ==
    LET hits == {j \in i..Len(ReadSteps) : a.query \in {ReadSteps[j][1], "all"}}
    IN  IF hits = {} THEN 0 ELSE CHOOSE j \in hits : \A k \in hits : j <= k

\* the except clauses of main(), by the class of the exception
MainExcept(exc) ==
    IF exc \in {"ConnectionError", "Timeout", "TooManyRedirects", "HTTPError",
                "MissingSchema", "requests.JSONDecodeError"}
    THEN "main: RequestException"
    ELSE IF exc = "json.JSONDecodeError" THEN "main: JSONDecodeError"
    ELSE "main: Exception"

MainExceptMessage(handler) ==
    CASE handler = "main: RequestException" -> <<"Error connecting to the API">>
      [] handler = "main: JSONDecodeError" -> <<"Error decoding the API response">>
      [] handler = "main: Exception" -> <<"Unexpected error">>

\* -------------------------------------------------------------------- state
VARIABLES
    args,          \* the parsed command line: flags, string options, --query
    given,         \* the value arguments (--username, --password, ...) that
                   \* main() has tested and found truthy
    pc,            \* where main() stands: start, constructed, try, done,
                   \* crashed, blocked
    ri,            \* the next read step main() will test
    endpoint,      \* client.endpoint
    redirect_url,  \* client.redirect_url
    headers,       \* client.headers
    probe,         \* the outcome of the constructor's probe
    net,           \* every request handed to the network, in order
    calls,         \* the number of calls of execute_query
    last,          \* the last operation main() ran and what it gave
    printed        \* what the last step wrote to standard output

vars ==
    <<args, given, pc, ri, endpoint, redirect_url, headers, probe, net, calls, last,
      printed>>

NoOutcome ==
    [kind |-> "none", status |-> 0, text |-> NoText, exc |-> "none", hops |-> 0]

NoCall ==
    [op |-> "none", sent |-> FALSE, outcome |-> NoOutcome, how |-> "none",
     value |-> NoValue, exc |-> "none", handler |-> "none"]

Init ==
    /\ args \in ParsedArgs
    /\ given = {}
    /\ pc = "start"
    /\ ri = 1
    /\ endpoint = None
    /\ redirect_url = None
    /\ headers = EmptyHeaders
    /\ probe = NoProbe
    /\ net = <<>>
    /\ calls = 0
    /\ last = NoCall
    /\ printed = <<>>

\* client = UnraidGraphQLClient(args.ip, args.key, args.port): the fields are
\* set and the probe is sent; an exception that discovery does not catch
\* leaves main(), which has not entered its try block yet, and a probe that
\* is never answered leaves the constructor blocked in requests.get
Construct ==
    /\ pc = "start"
    /\ \E p \in ProbeOutcomes :
        LET d == Discover(BaseEndpoint, InitialHeaders, p)
        IN  /\ probe' = p
            /\ net' = Append(net, ProbeRequest(BaseEndpoint))
            /\ endpoint' = d.endpoint
            /\ redirect_url' = d.redirect_url
            /\ headers' = d.headers
            /\ printed' = d.printed
            /\ pc' = IF p.kind = "NoAnswer" THEN "blocked"
                     ELSE IF d.raised THEN "crashed" ELSE "constructed"
    /\ UNCHANGED <<args, given, ri, calls, last>>

\* variant of DirectEndpoint that keeps the discovered endpoint
DirectEndpointKept(a, ep) == ep

\* if args.direct: client.endpoint = f"http://{args.ip}:{args.port}/graphql"
DirectEndpoint(a, ep) == IF "direct" \in a.flags THEN BaseEndpoint ELSE ep

\* if args.direct: client.redirect_url = None
DirectRedirectUrl(a, url) == IF "direct" \in a.flags THEN None ELSE url

MainDirect ==
    /\ pc = "constructed"
    /\ endpoint' = DirectEndpoint(args, endpoint)
    /\ redirect_url' = DirectRedirectUrl(args, redirect_url)
    /\ pc' = "try"
    /\ printed' = <<>>
    /\ UNCHANGED <<args, given, ri, headers, probe, net, calls, last>>

\* variant of Attempts that sends a failed request a second time
AttemptsWithRetry(log, request, o) ==
    IF o.kind = "RequestException"
    THEN Append(Append(log, request), request)
    ELSE Append(log, request)

\* session.post hands the request to the network once: the session mounts
\* the default adapter, which retries nothing
Attempts(log, request, o) == Append(log, request)

\* variant of Request that keeps the address of the final response of a
\* redirected POST as the endpoint of the session
RequestFollowing(op, doc, after) ==
    \E o \in PostOutcomesTo(endpoint) :
        LET r == ExecuteQuery(o)
            h == IF r.how = "raise" THEN MainExcept(r.exc) ELSE r.handler
        IN  /\ net' = Attempts(net, PostRequest(endpoint, headers, Payload(doc, None)), o)
            /\ calls' = calls + 1
            /\ last' = [op |-> op, sent |-> TRUE, outcome |-> o, how |-> r.how,
                        value |-> r.value, exc |-> r.exc, handler |-> h]
            /\ printed' = << <<"banner", op>> >> \o r.printed
                          \o (IF r.how = "raise"
                              THEN << MainExceptMessage(h) >>
                              ELSE << <<"json", r.value>> >>)
            /\ pc' = IF r.how = "raise" THEN "done" ELSE after
            /\ endpoint' = IF o.hops > 0 THEN HttpsScheme \o ServerIp \o GraphqlPath
                            ELSE endpoint
            /\ UNCHANGED <<redirect_url, headers>>

\* response = client.<method>(...); client.pretty_print_response(response)
\* inside the try block of main(): the method builds its document and
\* returns execute_query's result; an exception ends main() in an except clause
Request(op, doc, after) ==
    \E o \in PostOutcomesTo(endpoint) :
        LET r == ExecuteQuery(o)
            h == IF r.how = "raise" THEN MainExcept(r.exc) ELSE r.handler
        IN  /\ net' = Attempts(net, PostRequest(endpoint, headers, Payload(doc, None)), o)
            /\ calls' = calls + 1
            /\ last' = [op |-> op, sent |-> TRUE, outcome |-> o, how |-> r.how,
                        value |-> r.value, exc |-> r.exc, handler |-> h]
            /\ printed' = << <<"banner", op>> >> \o r.printed
                          \o (IF r.how = "raise"
                              THEN << MainExceptMessage(h) >>
                              ELSE << <<"json", r.value>> >>)
            /\ pc' = IF r.how = "raise" THEN "done" ELSE after
            /\ UNCHANGED <<endpoint, redirect_url, headers>>

\* reboot .. cancel_parity, archive_notification, archive_all: the selected
\* mutation is sent and main() returns
MainMutation ==
    /\ pc = "try"
    /\ FirstSelected(args) \notin
           ValidatedFlags \cup UnsupportedFlags \cup {"custom", "none"}
    /\ Request(FirstSelected(args), Document(FirstSelected(args)), "done")
    /\ UNCHANGED <<args, given, ri, probe>>

\* add_user, delete_user, create_apikey, create_notification, setup_remote:
\* main() tests the value arguments the action requires (None and the empty
\* string are both falsy) and returns with an error message when one is falsy
MainValidated ==
    /\ pc = "try"
    /\ FirstSelected(args) \in ValidatedFlags
    /\ \E g \in SUBSET Required(FirstSelected(args)) :
        /\ given' = g
        /\ IF Required(FirstSelected(args)) \subseteq g
           THEN Request(FirstSelected(args), Document(FirstSelected(args)), "done")
           ELSE /\ printed' = << <<"Error: required argument missing">> >>
                /\ last' = [NoCall EXCEPT !.op = FirstSelected(args)]
                /\ pc' = "done"
                /\ UNCHANGED <<net, calls, endpoint, redirect_url, headers>>
    /\ UNCHANGED <<args, ri, probe>>

\* variant of MainUnsupported whose method sends a mutation through
\* execute_query
MainUnsupportedSends ==
    /\ pc = "try"
    /\ FirstSelected(args) \in UnsupportedFlags
    /\ Request(FirstSelected(args), <<"mutation", FirstSelected(args)>>, "done")
    /\ UNCHANGED <<args, given, ri, probe>>

\* start/stop/restart_docker_container, start/stop/pause/resume_vm: the
\* method returns its fixed error record
MainUnsupported ==
    /\ pc = "try"
    /\ FirstSelected(args) \in UnsupportedFlags
    /\ last' = [NoCall EXCEPT !.op = FirstSelected(args), !.how = "return",
                              !.value = NotSupported(FirstSelected(args))]
    /\ printed' = << <<"banner", FirstSelected(args)>>,
                     <<"json", NotSupported(FirstSelected(args))>> >>
    /\ pc' = "done"
    /\ UNCHANGED <<args, given, ri, endpoint, redirect_url, headers, probe, net, calls>>

\* if args.custom: run_custom_query(args.custom) and return
MainCustom ==
    /\ pc = "try"
    /\ FirstSelected(args) = "custom"
    /\ Request("custom", Document("custom"), "done")
    /\ UNCHANGED <<args, given, ri, probe>>

\* the read queries: the next step that --query selects is run; main() ends
\* after the last one
MainRead ==
    /\ pc = "try"
    /\ FirstSelected(args) = "none"
    /\ NextRead(args, ri) # 0
    /\ LET j == NextRead(args, ri)
       IN  /\ Request(ReadSteps[j][1], ReadSteps[j][2],
                      IF NextRead(args, j + 1) = 0 THEN "done" ELSE "try")
           /\ ri' = j + 1
    /\ UNCHANGED <<args, given, probe>>

Next ==
    \/ Construct
    \/ MainDirect
    \/ MainMutation
    \/ MainValidated
    \/ MainUnsupported
    \/ MainCustom
    \/ MainRead

Spec == Init /\ [][Next]_vars

\* =================================================================== claims
Direct == "direct" \in args.flags
Posts == {i \in 1..Len(net) : net[i].method = "POST"}
Probes == {i \in 1..Len(net) : net[i].method = "GET"}
OverrideNames == {"Host", "Origin", "Referer"}

\* the authorities A for which l reads http://A/path or https://A/path
Authorities(l) ==
    {SubSeq(l, Len(sch) + 1, Len(sch) + n) :
        <<sch, n>> \in
            {x \in {HttpScheme, HttpsScheme} \X (1..Len(l)) :
                /\ HasAt(l, 1, x[1])
                /\ Len(x[1]) + x[2] + 1 <= Len(l)
                /\ \A k \in 1..x[2] : l[Len(x[1]) + k] # "/"
                /\ l[Len(x[1]) + x[2] + 1] = "/"}}

Mentions(msg, text) == \E j \in 1..Len(msg) : msg[j] = text

\* C1: with --direct, no probe request (GET of the base /graphql address) is
\* ever issued during the invocation.
C1_DirectIssuesNoProbe == Direct => Probes = {}

\* C2: with --direct, every POST of the invocation is sent to
\* http://{ip}:{port}/graphql, whatever the probe's outcome was.
C2_DirectPostsToBase ==
    Direct => \A i \in Posts :
        net[i].url = HttpScheme \o ServerIp \o <<":">> \o ServerPort \o GraphqlPath

C2_Witness ==
    /\ Direct
    /\ IsRedirect(probe)
    /\ redirect_url = None
    /\ Posts # {}

\* C3: with --direct, every POST carries the three initial headers unchanged
\* and no Host, Origin or Referer override derived from a redirect target.
C3_DirectHeadersInitial ==
    Direct => \A i \in Posts :
        /\ \A k \in DOMAIN InitialHeaders : net[i].headers[k] = InitialHeaders[k]
        /\ OverrideNames \cap DOMAIN net[i].headers = {}

\* C4: when the probe answers 302 with a Location http(s)://A/path, then after
\* construction the endpoint is the Location value and the headers are the
\* three initial ones, unchanged, plus Host = A, Origin = https://A and
\* Referer = https://A/dashboard.
C4_RedirectDiscovery ==
    \A A \in Authorities(probe.location) :
        (pc = "constructed" /\ probe.kind = "response" /\ probe.status = 302) =>
            /\ endpoint = probe.location
            /\ DOMAIN headers = DOMAIN InitialHeaders \cup OverrideNames
            /\ \A k \in DOMAIN InitialHeaders : headers[k] = InitialHeaders[k]
            /\ headers["Host"] = A
            /\ headers["Origin"] = HttpsScheme \o A
            /\ headers["Referer"] = HttpsScheme \o A \o DashboardPath

C4_Witness ==
    /\ pc = "constructed"
    /\ probe.kind = "response"
    /\ probe.status = 302
    /\ probe.location = LocHttpPort
    /\ endpoint = LocHttpPort
    /\ "Host" \in DOMAIN headers

\* C5: without direct mode, every POST of the session goes to the endpoint
\* discovery resolved and carries the session's current headers: x-api-key
\* with the configured key and, after a redirect with an authority, the Host,
\* Origin and Referer overrides.
C5_SessionInvariant ==
    ~Direct => \A i \in Posts :
        /\ net[i].url = IF probe.status = 302 /\ probe.location # Absent
                        THEN probe.location ELSE BaseEndpoint
        /\ DOMAIN headers \subseteq DOMAIN net[i].headers
        /\ net[i].headers["x-api-key"] = ApiKey
        /\ \A k \in DOMAIN headers : net[i].headers[k] = headers[k]
        /\ \A A \in Authorities(probe.location) :
               probe.status = 302 =>
                   /\ OverrideNames \subseteq DOMAIN net[i].headers
                   /\ net[i].headers["Host"] = A
                   /\ net[i].headers["Origin"] = HttpsScheme \o A
                   /\ net[i].headers["Referer"] = HttpsScheme \o A \o DashboardPath

C5_Witness ==
    /\ ~Direct
    /\ probe.status = 302
    /\ probe.location = LocHttps
    /\ Cardinality(Posts) >= 2

Surfaced(how, value, handler) == <<how, DOMAIN value, handler>>

\* C7: a 2xx response whose body is not valid JSON surfaces as an error
\* distinct from the one a transport failure produces, and the process does
\* not crash.
C7_MalformedBodyDistinct ==
    (last.sent /\ last.outcome.kind = "response"
        /\ last.outcome.status >= 200 /\ last.outcome.status < 300
        /\ last.outcome.text # JsonText) =>
        /\ pc # "crashed"
        /\ \A t \in PostOutcomes :
               t.kind = "RequestException" =>
                   Surfaced(last.how, last.value, last.handler)
                       # Surfaced(ExecuteQuery(t).how, ExecuteQuery(t).value,
                                  ExecuteQuery(t).handler)

\* C8: each of start/stop/restart_docker_container and
\* start/stop/pause/resume_vm returns the fixed 'not currently supported'
\* error record, performs no transport call, and leaves the session's
\* endpoint and headers unchanged.
C8_UnsupportedOperations ==
    [][(pc = "try" /\ FirstSelected(args) \in UnsupportedFlags) =>
          /\ net' = net
          /\ calls' = calls
          /\ endpoint' = endpoint
          /\ redirect_url' = redirect_url
          /\ headers' = headers
          /\ last'.op = FirstSelected(args)
          /\ last'.how = "return"
          /\ DOMAIN last'.value = {"error"}
          /\ last'.value["error"] \in
                 {<<"Docker container control operations are not currently supported by the Unraid GraphQL API">>,
                  <<"VM control operations are not currently supported by the Unraid GraphQL API">>}]_vars

C8_Witness ==
    /\ pc = "done"
    /\ last.op = "stop_vm"
    /\ last.how = "return"
    /\ IsRedirect(probe)
    /\ Posts = {}

\* C9: when a mutating action is selected without its required arguments,
\* the invocation reports the error and ends with no network call of any
\* kind having been made.
C9_MissingArgumentNoNetwork ==
    (pc = "done" /\ last.op \in ValidatedFlags
        /\ ~(Required(last.op) \subseteq given)) =>
        /\ net = <<>>
        /\ printed = << <<"Error: required argument missing">> >>

\* C10: each call of execute_query issues exactly one POST, whatever the
\* outcome; a failed attempt is not repeated, and the result of a call is
\* made from the response of that call.
C10_OnePostPerCall ==
    /\ Cardinality(Posts) = calls
    /\ last.sent =>
           /\ net[Len(net)].method = "POST"
           /\ last.outcome.kind = "RequestException" =>
                  last.how = "return" /\ last.value = ("error" :> <<last.outcome.exc>>)
           /\ (last.outcome.kind = "response" /\ last.outcome.status = 200
                  /\ last.outcome.text = JsonText) =>
                  last.how = "return" /\ last.value = ("data" :> <<JsonText>>)

C10_Witness ==
    /\ calls >= 2
    /\ last.sent
    /\ last.outcome.kind = "RequestException"
    /\ Cardinality(Posts) = calls

\* the mutating and control selectors: every selector of the chain but --custom
MutatingFlags == {FlagOrder[i] : i \in 1..Len(FlagOrder)} \ {"custom"}

\* the option was given on the command line, whatever its value
FlagSet(f) == IF f \in BoolFlags THEN f \in args.flags ELSE args.str[f] # None

\* f comes before g in the order in which main() tests the selectors
Before(f, g) ==
    \E i, j \in 1..Len(FlagOrder) : i < j /\ FlagOrder[i] = f /\ FlagOrder[j] = g

\* C11: when at least one mutating or control flag is set, exactly one
\* mutating operation is executed, that of the first set flag in main's
\* order; its result is printed, and no read query and no custom query is
\* issued, whatever --query and --custom are.
C11_ExactlyOneMutation ==
    \A f \in MutatingFlags :
        (pc = "done" /\ FlagSet(f)
            /\ \A g \in MutatingFlags : FlagSet(g) => g = f \/ Before(f, g)) =>
            /\ last.op = f
            /\ last.how = "return"
            /\ printed[Len(printed)] = <<"json", last.value>>
            /\ \A i \in Posts : net[i].query = Document(f)

\* C11 as amended: when at least one mutating or control selector holds a
\* truthy value, at most one operation is run, that of the first such
\* selector in main's order; it is run unless one of its required arguments
\* is missing, its result is printed when it returns, and no read query and
\* no custom query is ever issued, whatever --query and --custom are.
C11_AtMostOneMutation ==
    \A f \in MutatingFlags :
        (Selected(args, f)
            /\ \A g \in MutatingFlags : Selected(args, g) => g = f \/ Before(f, g)) =>
            /\ Cardinality(Posts) <= 1
            /\ \A i \in Posts :
                   /\ f \notin UnsupportedFlags
                   /\ net[i].query = Document(f)
            /\ pc = "done" =>
                   /\ last.op = f
                   /\ (last.how # "none") <=> (Required(f) \subseteq given)
                   /\ last.how = "return" =>
                          printed[Len(printed)] = <<"json", last.value>>

C11_Witness ==
    /\ pc = "done"
    /\ args.flags = {"stop_array", "reboot"}
    /\ args.query = "info"
    /\ last.op = "reboot"
    /\ last.how = "return"
    /\ Cardinality(Posts) = 1

\* C12: when the probe fails with a transport error, construction completes
\* without raising, the endpoint is still http://{ip}:{port}/graphql, the
\* headers are the three initial ones, and the later operations are still
\* executed, against that endpoint.
C12_DiscoveryFailureFallsBack ==
    probe.kind = "RequestException" =>
        /\ pc # "crashed"
        /\ endpoint = BaseEndpoint
        /\ redirect_url = None
        /\ headers = InitialHeaders
        /\ pc = "constructed" =>
               printed = <<"Warning: Could not discover redirect URL">>
        /\ \A i \in Posts : net[i].url = BaseEndpoint
        /\ (pc = "done" /\ FirstSelected(args) \in {"none", "custom"}) => Posts # {}

C12_Witness ==
    /\ probe.kind = "RequestException"
    /\ pc = "done"
    /\ last.sent
    /\ last.outcome.kind = "response"
    /\ last.how = "return"
    /\ net[Len(net)].url = BaseEndpoint

\* C13: when the probe response has status 200, or a redirect status but no
\* Location header, discovery changes nothing: the endpoint stays the base
\* /graphql address, redirect_url stays unset and no Host, Origin or Referer
\* header is added.
C13_NoRedirectNoChange ==
    (/\ pc # "start"
     /\ probe.kind = "response"
     /\ \/ probe.status = 200
        \/ probe.status \in 300..399 /\ probe.location = Absent) =>
        /\ endpoint = BaseEndpoint
        /\ redirect_url = None
        /\ headers = InitialHeaders
        /\ OverrideNames \cap DOMAIN headers = {}

C13_Witness ==
    /\ pc = "constructed"
    /\ probe.kind = "response"
    /\ probe.status = redirect_status
    /\ probe.location = Absent
    /\ endpoint = BaseEndpoint

\* C14: for every 3xx probe status (301, 302, 303, 307, 308) that carries a
\* Location header, the Location value becomes the effective endpoint of the
\* session.
C14_AnyRedirectStatus ==
    (/\ pc = "constructed"
     /\ probe.kind = "response"
     /\ probe.status \in 300..399
     /\ probe.location # Absent) =>
        endpoint = probe.location

\* C15: when the POST fails at transport level (connection error, timeout,
\* too many redirects), execute_query does not raise and returns an error
\* record that carries the failure message and neither status nor body; main
\* prints that record and goes on: the read queries that remain in an "all"
\* run are still attempted, and the run ends normally.
C15_TransportFailureReturnsRecord ==
    (last.sent /\ last.outcome.kind = "RequestException") =>
        /\ last.how = "return"
        /\ last.handler = "execute_query"
        /\ DOMAIN last.value = {"error"}
        /\ last.value["error"] = <<last.outcome.exc>>
        /\ printed[1] = <<"banner", last.op>>
        /\ printed[2] = <<"Error making the request">>
        /\ printed[Len(printed)] = <<"json", last.value>>
        /\ pc \in {"try", "done"}
        /\ pc = "try" => NextRead(args, ri) # 0
        /\ (pc = "done" /\ FirstSelected(args) = "none") => NextRead(args, ri) = 0

C15_Witness ==
    /\ args.query = "all"
    /\ FirstSelected(args) = "none"
    /\ calls = 2
    /\ pc = "try"
    /\ last.outcome.kind = "RequestException"
    /\ last.outcome.exc = "Timeout"
    /\ last.how = "return"

\* C16: over the whole life of a session the probe request is sent at most
\* once, it is sent before any POST, it carries no API key header, and it
\* does not follow redirects.
C16_ProbeOnceFirstUnauthenticated ==
    /\ Cardinality(Probes) <= 1
    /\ \A i \in Probes :
           /\ \A j \in Posts : i < j
           /\ net[i].url = BaseEndpoint
           /\ "x-api-key" \notin DOMAIN net[i].headers
           /\ ~net[i].allow_redirects

C16_Witness ==
    /\ pc = "done"
    /\ calls >= 2
    /\ Cardinality(Posts) = calls
    /\ Probes = {1}
    /\ IsRedirect(probe)

\* the read categories of --query, in the order main() tests them
ReadCategories ==
    <<"info", "array", "docker", "disks", "network", "shares", "vms", "parity",
      "vars", "users", "apikeys", "notifications">>

\* the documents of a complete --query all run, in the order they are sent
AllDocuments ==
    << <<"query", "info">>, <<"query", "array">>, <<"query", "docker">>,
       <<"query", "disks">>, <<"query", "network">>,
       <<"query", "info", "devices">>, <<"query", "shares">>,
       <<"query", "vms">>, <<"query", "parityHistory">>, <<"query", "vars">>,
       <<"query", "me">>, <<"query", "apiKeys">>,
       <<"query", "notifications">> >>

IsPost(request) == request.method = "POST"

\* the POSTs sent for the read category c
PostsOf(c) ==
    {i \in Posts : \E j \in 1..Len(ReadSteps) :
        ReadSteps[j][1] = c /\ ReadSteps[j][2] = net[i].query}

FetchAll == args.query = "all" /\ FirstSelected(args) = "none"

\* C17: with --query all and no mutating or custom flag, the invocation
\* issues exactly one POST per read category (info, array, docker, disks,
\* network, shares, vms, parity, vars, users, apikeys, notifications), in
\* that order, each one after the previous response has been printed.
\* Stated for the runs in which every call returns.
C17_OnePostPerCategory ==
    (FetchAll /\ pc = "done" /\ last.how = "return") =>
        /\ \A k \in 1..Len(ReadCategories) :
               Cardinality(PostsOf(ReadCategories[k])) = 1
        /\ \A k, l \in 1..Len(ReadCategories) :
               k < l =>
                   \A i \in PostsOf(ReadCategories[k]),
                      j \in PostsOf(ReadCategories[l]) : i < j
        /\ Cardinality(Posts) = Len(ReadCategories)

\* C17 as amended: with --query all and no truthy mutating or custom
\* selector, the POSTs are sent in the order info, array, docker, disks,
\* network, detailed network, shares, vms, parity, vars, users, apikeys,
\* notifications: one per category and two for the network category,
\* thirteen in all, each one after the previous result has been printed;
\* the run sends all thirteen unless a call raises, which ends it.
C17_ThirteenPostsInOrder ==
    FetchAll =>
        LET posts == SelectSeq(net, IsPost)
        IN  /\ Len(posts) = calls
            /\ Len(posts) <= Len(AllDocuments)
            /\ \A i \in 1..Len(posts) : posts[i].query = AllDocuments[i]
            /\ (pc = "try" /\ calls > 0) =>
                   /\ last.how = "return"
                   /\ printed[Len(printed)] = <<"json", last.value>>
            /\ pc = "try" => Len(posts) < Len(AllDocuments)
            /\ (pc = "done" /\ last.how = "return") =>
                   Len(posts) = Len(AllDocuments)

C17_Witness ==
    /\ FetchAll
    /\ pc = "done"
    /\ last.how = "return"
    /\ calls = 13
    /\ Cardinality(PostsOf("network")) = 2

\* C18: an unanticipated exception raised at any step of an invocation after
\* argument parsing, client construction and discovery included, is caught
\* at the top level of main and reported with a generic message; it never
\* leaves main as a raw crash.
C18_NoFatalError ==
    /\ pc # "crashed"
    /\ last.how = "raise" =>
           /\ pc = "done"
           /\ last.handler \in {"main: RequestException", "main: JSONDecodeError",
                                "main: Exception"}
           /\ printed[Len(printed)] = MainExceptMessage(last.handler)

\* C19: execute_query never modifies the session: for every outcome of the
\* POST (success, HTTP error, transport failure, a POST that is itself
\* redirected through up to 5 hops) the endpoint, redirect_url and headers
\* after the call are those before it, so every request of the run goes to
\* the endpoint fixed at construction, with the headers fixed there.
C19_ExecutorFrame ==
    /\ \A i \in Posts :
           /\ net[i].url = endpoint
           /\ net[i].headers = headers @@ SessionDefaults
    /\ calls > 0 =>
           /\ redirect_url =
                  IF IsRedirect(probe) /\ ~Direct THEN probe.location ELSE None
           /\ endpoint =
                  IF IsRedirect(probe) /\ ~Direct THEN probe.location
                  ELSE BaseEndpoint
    /\ last.outcome.hops <= max_redirects

C19_Witness ==
    /\ calls = 2
    /\ pc = "try"
    /\ last.outcome.kind = "response"
    /\ last.outcome.hops = max_redirects
    /\ endpoint = LocHttps
    /\ net[Len(net)].url = LocHttps
    /\ net[Len(net) - 1].url = LocHttps

\* the Location starts with http:// or https:// followed by an authority
StartsWithAuthority(l) ==
    \E scheme \in {HttpScheme, HttpsScheme} :
        /\ HasAt(l, 1, scheme)
        /\ Len(l) > Len(scheme)
        /\ l[Len(scheme) + 1] # "/"

\* C20: when the probe returns 302 with a Location that does not start with
\* http:// or https:// followed by an authority, the endpoint is still
\* replaced by that Location value while no Host, Origin or Referer header
\* is added; every later execute_query then targets that value and returns
\* an error record instead of raising.  Stated for the runs without --direct.
C20_RedirectWithoutAuthority ==
    (/\ pc # "start"
     /\ ~Direct
     /\ probe.kind = "response"
     /\ probe.status = redirect_status
     /\ probe.location # Absent
     /\ ~StartsWithAuthority(probe.location)) =>
        /\ endpoint = probe.location
        /\ OverrideNames \cap DOMAIN headers = {}
        /\ \A i \in Posts : net[i].url = probe.location
        /\ last.sent =>
               /\ last.how = "return"
               /\ DOMAIN last.value = {"error"}

\* startParityCheck(correct: true) and startParityCheck(correct: false)
CorrectingCheck == <<"mutation", "startParityCheck", "correct: true">>
PlainCheck == <<"mutation", "startParityCheck", "correct: false">>

\* the flags main() tests before --correct-parity
BeforeCorrectParity ==
    {"reboot", "shutdown", "start_array", "stop_array", "start_parity"}

CorrectParityWins ==
    /\ "correct_parity" \in args.flags
    /\ BeforeCorrectParity \cap args.flags = {}

Ended == pc \in {"done", "crashed"}

\* C22: every invocation ends after a bounded number of network calls (one
\* probe plus the POSTs of the selected action), given that each POST either
\* answers or hits its timeout: the invocation never stands at a point it
\* cannot leave, whatever the server does with the probe.
C22_Terminates ==
    /\ Len(net) <= 1 + Len(ReadSteps)
    /\ Ended \/ ENABLED Next

====
